---- MODULE Spec2Model ----
(***************************************************************************)
(* Model of sticker_simulation.py: Person (album, repeats, is_finished,    *)
(* money_spent) and Economy (members, finishers, trade, round_of_trade,    *)
(* run_simulation).  Random draws of np.random.choice are inputs chosen    *)
(* with \E; a defaultdict(int) is a function on its key set that reads 0   *)
(* for a missing key.                                                      *)
(***************************************************************************)
EXTENDS Integers, Sequences, FiniteSets, TLC

\* ---------------------------------------------------------------- bounds
MaxStickers == 3
MaxFriends == 2
MaxEndowment == 2
MaxPack == 1
MaxRandos == 2
MaxRounds == 2
MaxLogging == 2
\* the largest album of the runs checked for termination
LiveMaxStickers == 2

VARIABLES
    n_friends,          \* Economy.n_friends
    n_randos,           \* Economy.n_randos
    stickers_per_pack,  \* Economy.stickers_per_pack
    n_stickers,         \* Economy.n_stickers
    starting_endowment, \* argument of Economy.__init__
    rando_endowment,    \* argument of run_simulation
    n_logging,          \* argument of run_simulation
    members,            \* Economy.members: friend id -> Person
    finishers,          \* Economy.finishers: set of Person objects (friend ids)
    pc,                 \* position in run_simulation / round_of_trade
    n_rounds,           \* run_simulation local
    n_finished,         \* run_simulation local
    have_traded,        \* round_of_trade local
    pairs,              \* round_of_trade: rest of combinations(self.members, 2)
    pid,                \* round_of_trade: person_id of the stranger loop
    rando_i,            \* round_of_trade: index of the inner range(n_randos) loop
    did_not_trade,      \* round_of_trade: friends still to buy in the last loop
    printed,            \* what the last progress report printed (<<>> before any)
    last_trade,         \* the call of trade of the current loop iteration: its
                        \* arguments and its result (<<>> outside the loops)
    round_start,        \* members as they were when round_of_trade was entered
    traders,            \* the friends that were party to a call of trade that
                        \* returned True since round_of_trade was entered
    last_buy            \* the call of buy_pack of the current iteration of the
                        \* last loop: who bought, the person before the call and
                        \* the pack drawn (<<>> outside that loop)

vars == <<n_friends, n_randos, stickers_per_pack, n_stickers, starting_endowment,
          rando_endowment, n_logging, members, finishers, pc, n_rounds,
          n_finished, have_traded, pairs, pid, rando_i, did_not_trade, printed,
          last_trade, round_start, traders, last_buy>>

config == <<n_friends, n_randos, stickers_per_pack, n_stickers,
            starting_endowment, rando_endowment, n_logging>>

\* ---------------------------------------------------------------- Person

\* range(self.n_stickers)
Stickers(n) == 0 .. (n - 1)

\* np.random.choice(range(n), k, replace=True): any sequence of k identifiers
Packs(k, n) == [1 .. k -> Stickers(n)]

\* defaultdict(int): a missing key reads as 0
Get(repeats, k) == IF k \in DOMAIN repeats THEN repeats[k] ELSE 0

\* repeats[k] = v, creating the key when it is missing
Put(repeats, k, v) ==
    [x \in (DOMAIN repeats) \cup {k} |-> IF x = k THEN v ELSE repeats[x]]

\* Person.__init__ before its call of buy_pack
NewPerson(n) ==
    [album |-> {}, repeats |-> <<>>, is_finished |-> FALSE, money_spent |-> 0,
     n_stickers |-> n]

\* finished with > in place of ==
finished_above(p) ==
    IF Cardinality(p.album) > p.n_stickers
    THEN [p EXCEPT !.is_finished = TRUE]
    ELSE p

\* finished with >= n_stickers - 1 in place of == n_stickers
finished_off_by_one(p) ==
    IF Cardinality(p.album) >= p.n_stickers - 1
    THEN [p EXCEPT !.is_finished = TRUE]
    ELSE p

\* finished that assigns the flag, and counts the keys of repeats with the album
finished_counts_repeats(p) ==
    [p EXCEPT !.is_finished =
        (Cardinality(p.album) + Cardinality(DOMAIN p.repeats) = p.n_stickers)]

\* Person.finished
finished(p) ==
    IF Cardinality(p.album) = p.n_stickers
    THEN [p EXCEPT !.is_finished = TRUE]
    ELSE p

\* the loop of buy_pack without its else: a sticker already in the album is
\* counted as a repeat, and so is a new one
RECURSIVE AddPack_counts_twice(_, _, _)
AddPack_counts_twice(p, pack, i) ==
    IF i > Len(pack) THEN p
    ELSE AddPack_counts_twice(
            [p EXCEPT !.album = @ \cup {pack[i]},
                      !.repeats = Put(@, pack[i], Get(@, pack[i]) + 1)],
            pack, i + 1)

\* the loop of buy_pack with its test inverted
RECURSIVE AddPack_inverted(_, _, _)
AddPack_inverted(p, pack, i) ==
    IF i > Len(pack) THEN p
    ELSE IF pack[i] \in p.album
         THEN AddPack_inverted([p EXCEPT !.album = @ \cup {pack[i]}], pack, i + 1)
         ELSE AddPack_inverted(
                 [p EXCEPT !.repeats = Put(@, pack[i], Get(@, pack[i]) + 1)],
                 pack, i + 1)

\* the loop of buy_pack over the drawn stickers, from position i on
RECURSIVE AddPack(_, _, _)
AddPack(p, pack, i) ==
    IF i > Len(pack) THEN p
    ELSE IF pack[i] \notin p.album
         THEN AddPack([p EXCEPT !.album = @ \cup {pack[i]}], pack, i + 1)
         ELSE AddPack([p EXCEPT !.repeats = Put(@, pack[i], Get(@, pack[i]) + 1)],
                      pack, i + 1)

\* buy_pack that pays and leaves the stickers of the pack aside
buy_pack_pays_only(p, pack) ==
    finished([p EXCEPT !.money_spent = @ + 1])

\* Person.buy_pack, with the drawn pack as input
buy_pack(p, pack) ==
    finished(AddPack([p EXCEPT !.money_spent = @ + 1], pack, 1))

\* the loop of update_collection over stickers_giving (a set: the order of
\* the decrements does not matter)
RECURSIVE GiveAll(_, _)
GiveAll(repeats, giving) ==
    IF giving = {} THEN repeats
    ELSE LET s == CHOOSE x \in giving : TRUE
         IN  GiveAll(Put(repeats, s, Get(repeats, s) - 1), giving \ {s})

\* update_collection with its two arguments taken the other way round
update_collection_swapped(p, stickers_giving, stickers_receving) ==
    finished([p EXCEPT !.album = @ \cup stickers_giving,
                       !.repeats = GiveAll(@, stickers_receving)])

\* update_collection that also takes the stickers given out of the album
update_collection_removes_given(p, stickers_giving, stickers_receving) ==
    finished([p EXCEPT !.album = (@ \cup stickers_receving) \ stickers_giving,
                       !.repeats = GiveAll(@, stickers_giving)])

\* Person.update_collection
update_collection(p, stickers_giving, stickers_receving) ==
    finished([p EXCEPT !.album = @ \cup stickers_receving,
                       !.repeats = GiveAll(@, stickers_giving)])

\* Person(endowment, n_stickers), with the drawn pack as input
Person(pack, n) == buy_pack(NewPerson(n), pack)

\* ---------------------------------------------------------------- Economy

\* can_give with the comparison > 1 in place of > 0
can_give_above_one(p) == {k \in DOMAIN p.repeats : p.repeats[k] > 1}

\* can_give with the comparison >= 0 in place of > 0
can_give_from_zero(p) == {k \in DOMAIN p.repeats : p.repeats[k] >= 0}

\* set(k for k in person.repeats if person.repeats[k] > 0)
can_give(p) == {k \in DOMAIN p.repeats : p.repeats[k] > 0}

\* the condition of trade with "or" in place of "and"
TradeCond_or(p1_can_receive, p2_can_receive) ==
    Cardinality(p1_can_receive) > 0 \/ Cardinality(p2_can_receive) > 0

\* the condition of trade that forgets to test what person1 can receive
TradeCond_second_only(p1_can_receive, p2_can_receive) ==
    Cardinality(p2_can_receive) > 0

\* the condition under which trade exchanges stickers
TradeCond(p1_can_receive, p2_can_receive) ==
    Cardinality(p1_can_receive) > 0 /\ Cardinality(p2_can_receive) > 0

\* trade that settles before it tests: both persons are updated whatever
\* the condition says
trade_settles_first(person1, person2) ==
    LET person1_can_receive == can_give(person2) \ person1.album
        person2_can_receive == can_give(person1) \ person2.album
    IN  [traded |-> TradeCond(person1_can_receive, person2_can_receive),
         person1 |-> update_collection(person1, person2_can_receive,
                                       person1_can_receive),
         person2 |-> update_collection(person2, person1_can_receive,
                                       person2_can_receive)]

\* Economy.trade: the returned flag and the two persons after the call
trade(person1, person2) ==
    LET person2_can_give == can_give(person2)
        person1_can_give == can_give(person1)
        person1_can_receive == person2_can_give \ person1.album
        person2_can_receive == person1_can_give \ person2.album
    IN  IF TradeCond(person1_can_receive, person2_can_receive)
        THEN [traded |-> TRUE,
              person1 |-> update_collection(person1, person2_can_receive,
                                            person1_can_receive),
              person2 |-> update_collection(person2, person1_can_receive,
                                            person2_can_receive)]
        ELSE [traded |-> FALSE, person1 |-> person1, person2 |-> person2]

\* update_member without its test of is_finished
update_member_always(fin, person_id, person) == fin \cup {person_id}

\* Economy.update_member: finishers after the call (self.members[person_id]
\* already is the person object)
update_member(fin, person_id, person) ==
    IF person.is_finished THEN fin \cup {person_id} ELSE fin

\* itertools.combinations(range(n), 2) from the pair (i, j) on
RECURSIVE Combinations(_, _, _)
Combinations(i, j, n) ==
    IF i >= n - 1 THEN <<>>
    ELSE IF j >= n THEN Combinations(i + 1, i + 2, n)
    ELSE <<<<i, j>>>> \o Combinations(i, j + 1, n)

\* sum(self.members[p].is_finished for p in self.members)
NFinished(m) == Cardinality({p \in DOMAIN m : m[p].is_finished})

\* sum(self.members[id].money_spent for id in self.members)
RECURSIVE MoneySum(_, _)
MoneySum(m, ids) ==
    IF ids = {} THEN 0
    ELSE LET i == CHOOSE x \in ids : TRUE
         IN  m[i].money_spent + MoneySum(m, ids \ {i})

\* the record kept of a call of trade(a, b): who was passed (id2 = -1 for a
\* stranger), the two persons before the call, and what the call returned
TradeRecord(phase, id1, id2, a, b, res) ==
    <<[phase |-> phase, id1 |-> id1, id2 |-> id2, a |-> a, b |-> b,
       traded |-> res.traded, a_after |-> res.person1, b_after |-> res.person2]>>

\* ---------------------------------------------------------------- Init

\* Economy(n_friends, starting_endowment, n_randos, stickers_per_pack,
\* n_stickers_in_album) has been constructed and run_simulation(rando_endowment,
\* n_logging) has executed its first two lines.
Init ==
    /\ n_friends \in 1 .. MaxFriends
    /\ n_randos \in 0 .. MaxRandos
    /\ stickers_per_pack \in 0 .. MaxPack
    /\ n_stickers \in 1 .. MaxStickers
    /\ starting_endowment \in 0 .. MaxEndowment
    /\ rando_endowment \in 0 .. MaxEndowment
    /\ n_logging \in 1 .. MaxLogging
    /\ members \in [0 .. (n_friends - 1) ->
                      {Person(pack, n_stickers) :
                          pack \in Packs(starting_endowment, n_stickers)}]
    /\ finishers = {}
    /\ pc = "while"
    /\ n_rounds = 0
    /\ n_finished = NFinished(members)
    /\ have_traded = {}
    /\ pairs = <<>>
    /\ pid = 0
    /\ rando_i = 0
    /\ did_not_trade = {}
    /\ printed = <<>>
    /\ last_trade = <<>>
    /\ round_start = members
    /\ traders = {}
    /\ last_buy = <<>>

\* ---------------------------------------------------------------- run_simulation

\* the loop test on len(self.finishers) in place of n_finished
LoopCond_finishers == Cardinality(finishers) < n_friends

\* while(n_finished < self.n_friends)
LoopCond == n_finished < n_friends

\* the loop test succeeds: the body is entered
EnterLoop ==
    /\ pc = "while"
    /\ LoopCond
    /\ n_rounds < MaxRounds
    /\ pc' = "log"
    /\ UNCHANGED <<config, members, finishers, n_rounds, n_finished, have_traded,
                   pairs, pid, rando_i, did_not_trade, printed, last_trade,
                   round_start, traders, last_buy>>

\* the loop test fails: run_simulation returns
Return ==
    /\ pc = "while"
    /\ ~LoopCond
    /\ pc' = "done"
    /\ UNCHANGED <<config, members, finishers, n_rounds, n_finished, have_traded,
                   pairs, pid, rando_i, did_not_trade, printed, last_trade,
                   round_start, traders, last_buy>>

\* if n_rounds % n_logging == 0: print the round, len(finishers), money spent
Report ==
    /\ pc = "log"
    /\ n_rounds % n_logging = 0
    /\ printed' = <<[round |-> n_rounds, n_finishers |-> Cardinality(finishers),
                     money_spent |-> MoneySum(members, DOMAIN members)]>>
    /\ pc' = "call"
    /\ UNCHANGED <<config, members, finishers, n_rounds, n_finished, have_traded,
                   pairs, pid, rando_i, did_not_trade, last_trade, round_start,
                   traders, last_buy>>

\* the round is not one that is logged
NoReport ==
    /\ pc = "log"
    /\ n_rounds % n_logging # 0
    /\ pc' = "call"
    /\ UNCHANGED <<config, members, finishers, n_rounds, n_finished, have_traded,
                   pairs, pid, rando_i, did_not_trade, printed, last_trade,
                   round_start, traders, last_buy>>

\* ---------------------------------------------------------------- round_of_trade

\* round_of_trade is entered: have_traded = set(), the pair loop starts
RoundStart ==
    /\ pc = "call"
    /\ have_traded' = {}
    /\ pairs' = Combinations(0, 1, n_friends)
    /\ round_start' = members
    /\ traders' = {}
    /\ pc' = "friends"
    /\ UNCHANGED <<config, members, finishers, n_rounds, n_finished, pid, rando_i,
                   did_not_trade, printed, last_trade, last_buy>>

\* if any([person1.is_finished, person2.is_finished]): continue
SkipPair(person1, person2) == person1.is_finished \/ person2.is_finished

\* one iteration of the pair loop in which a finished person is skipped
FriendSkip ==
    /\ pc = "friends"
    /\ pairs # <<>>
    /\ SkipPair(members[pairs[1][1]], members[pairs[1][2]])
    /\ pairs' = Tail(pairs)
    /\ UNCHANGED <<config, members, finishers, pc, n_rounds, n_finished,
                   have_traded, pid, rando_i, did_not_trade, printed, last_trade,
                   round_start, traders, last_buy>>

\* have_traded that records the first of the two traders only
AddTraders_first(ht, ids) == ht \cup {CHOOSE x \in ids : \A y \in ids : x <= y}

\* have_traded after a trade of id1 and id2
AddTraders(ht, ids) == ht \cup ids

\* one iteration of the pair loop that calls trade (trade works on the Person
\* objects that members holds: what it does to them is seen through members)
FriendTrade ==
    /\ pc = "friends"
    /\ pairs # <<>>
    /\ LET id1 == pairs[1][1]
           id2 == pairs[1][2]
           res == trade(members[id1], members[id2])
       IN  /\ ~SkipPair(members[id1], members[id2])
           /\ last_trade' = TradeRecord("friends", id1, id2, members[id1],
                                        members[id2], res)
           /\ traders' = IF res.traded THEN traders \cup {id1, id2} ELSE traders
           /\ IF res.traded
              THEN /\ have_traded' = AddTraders(have_traded, {id1, id2})
                   /\ members' = [members EXCEPT ![id1] = finished(res.person1),
                                                 ![id2] = finished(res.person2)]
                   /\ finishers' = update_member(
                                      update_member(finishers, id1, finished(res.person1)),
                                      id2, finished(res.person2))
              ELSE /\ members' = [members EXCEPT ![id1] = res.person1,
                                                 ![id2] = res.person2]
                   /\ UNCHANGED <<have_traded, finishers>>
    /\ pairs' = Tail(pairs)
    /\ UNCHANGED <<config, pc, n_rounds, n_finished, pid, rando_i, did_not_trade,
                   printed, round_start, last_buy>>

\* the pair loop is over: the stranger loop starts
FriendsDone ==
    /\ pc = "friends"
    /\ pairs = <<>>
    /\ pc' = "randos"
    /\ pid' = 0
    /\ last_trade' = <<>>
    /\ UNCHANGED <<config, members, finishers, n_rounds, n_finished, have_traded,
                   pairs, rando_i, did_not_trade, printed, round_start, traders, last_buy>>

\* head of the stranger loop: a finished person is skipped
RandoSkip ==
    /\ pc = "randos"
    /\ pid < n_friends
    /\ members[pid].is_finished
    /\ pid' = pid + 1
    /\ UNCHANGED <<config, members, finishers, pc, n_rounds, n_finished,
                   have_traded, pairs, rando_i, did_not_trade, printed, last_trade,
                   round_start, traders, last_buy>>

\* head of the stranger loop: the inner loop over range(n_randos) starts
RandoEnter ==
    /\ pc = "randos"
    /\ pid < n_friends
    /\ ~members[pid].is_finished
    /\ pc' = "rando"
    /\ rando_i' = 0
    /\ UNCHANGED <<config, members, finishers, n_rounds, n_finished, have_traded,
                   pairs, pid, did_not_trade, printed, last_trade, round_start,
                   traders, last_buy>>

\* one iteration of the inner loop: a fresh stranger, one call of trade
RandoTrade ==
    /\ pc = "rando"
    /\ rando_i < n_randos
    /\ \E pack \in Packs(rando_endowment, n_stickers) :
          LET rando == Person(pack, n_stickers)
              res == trade(members[pid], rando)
          IN  /\ last_trade' = TradeRecord("randos", pid, -1, members[pid], rando, res)
              /\ traders' = IF res.traded THEN traders \cup {pid} ELSE traders
              /\ IF res.traded
                 THEN /\ have_traded' = AddTraders(have_traded, {pid})
                      /\ members' = [members EXCEPT ![pid] = finished(res.person1)]
                      /\ finishers' = update_member(finishers, pid,
                                                    finished(res.person1))
                 ELSE /\ members' = [members EXCEPT ![pid] = res.person1]
                      /\ UNCHANGED <<have_traded, finishers>>
    /\ rando_i' = rando_i + 1
    /\ UNCHANGED <<config, pc, n_rounds, n_finished, pairs, pid, did_not_trade,
                   printed, round_start, last_buy>>

\* the inner loop is over: next person
RandoNext ==
    /\ pc = "rando"
    /\ rando_i >= n_randos
    /\ pc' = "randos"
    /\ pid' = pid + 1
    /\ last_trade' = <<>>
    /\ UNCHANGED <<config, members, finishers, n_rounds, n_finished, have_traded,
                   pairs, rando_i, did_not_trade, printed, round_start, traders, last_buy>>

\* did_not_trade that leaves the finished out
DidNotTrade_unfinished(m, ht) == {p \in (DOMAIN m) \ ht : ~m[p].is_finished}

\* did_not_trade = set(self.members).difference(have_traded)
DidNotTrade(m, ht) == (DOMAIN m) \ ht

\* the stranger loop is over: the people who have not traded are computed
RandosDone ==
    /\ pc = "randos"
    /\ pid >= n_friends
    /\ did_not_trade' = DidNotTrade(members, have_traded)
    /\ pc' = "buy"
    /\ UNCHANGED <<config, members, finishers, n_rounds, n_finished, have_traded,
                   pairs, pid, rando_i, printed, last_trade, round_start, traders, last_buy>>

\* one iteration of the last loop (a set: any order): the person buys a pack
Buy ==
    /\ pc = "buy"
    /\ \E person_id \in did_not_trade :
       \E pack \in Packs(stickers_per_pack, n_stickers) :
          LET person == finished(buy_pack(members[person_id], pack))
          IN  /\ members' = [members EXCEPT ![person_id] = person]
              /\ finishers' = update_member(finishers, person_id, person)
              /\ did_not_trade' = did_not_trade \ {person_id}
              /\ last_buy' = <<[id |-> person_id, before |-> members[person_id],
                                pack |-> pack]>>
    /\ UNCHANGED <<config, pc, n_rounds, n_finished, have_traded, pairs, pid,
                   rando_i, printed, last_trade, round_start, traders>>

\* round_of_trade returns; n_finished is recomputed and n_rounds incremented
RoundEnd ==
    /\ pc = "buy"
    /\ did_not_trade = {}
    /\ n_finished' = NFinished(members)
    /\ n_rounds' = n_rounds + 1
    /\ pc' = "while"
    /\ last_buy' = <<>>
    /\ UNCHANGED <<config, members, finishers, have_traded, pairs, pid, rando_i,
                   did_not_trade, printed, last_trade, round_start, traders>>

Next ==
    \/ EnterLoop
    \/ Return
    \/ Report
    \/ NoReport
    \/ RoundStart
    \/ FriendSkip
    \/ FriendTrade
    \/ FriendsDone
    \/ RandoSkip
    \/ RandoEnter
    \/ RandoTrade
    \/ RandoNext
    \/ RandosDone
    \/ Buy
    \/ RoundEnd

Spec == Init /\ [][Next]_vars

\* ---------------------------------------------------------------- termination
\* The run without a bound on its rounds.  The integers that grow for ever are
\* replaced by what the code reads of them: a duplicate count by whether it is
\* above 0 (trade tests nothing else), money_spent by 0 (nothing reads it),
\* n_rounds by whether a round has been run.  A count above 0 that a trade
\* lowers may or may not still be above 0: both are kept.  Every run of the
\* program is a run of LiveSpec, so what holds of all runs of LiveSpec holds
\* of the program.

\* a person with its counters replaced as above
Abs(p) ==
    [p EXCEPT !.repeats = [k \in {x \in DOMAIN p.repeats : p.repeats[x] > 0} |-> 1],
              !.money_spent = 0]

\* the stickers update_collection has taken from the duplicates
Given(before, after) ==
    {k \in DOMAIN after.repeats : after.repeats[k] < Get(before.repeats, k)}

\* what a person can be after a call that took it from before to after
AbsAfter(before, after) ==
    {[Abs(after) EXCEPT !.repeats =
          [k \in (DOMAIN Abs(after).repeats) \cup K |-> 1]] :
       K \in SUBSET Given(before, after)}

LiveInit ==
    /\ n_friends \in 1 .. MaxFriends
    /\ n_randos \in 0 .. MaxRandos
    /\ stickers_per_pack \in 0 .. MaxPack
    /\ n_stickers \in 1 .. LiveMaxStickers
    /\ starting_endowment \in 0 .. MaxEndowment
    /\ rando_endowment \in 0 .. MaxEndowment
    /\ n_logging = 1
    /\ members \in [0 .. (n_friends - 1) ->
                      {Abs(Person(pack, n_stickers)) :
                          pack \in Packs(starting_endowment, n_stickers)}]
    /\ finishers = {}
    /\ pc = "while"
    /\ n_rounds = 0
    /\ n_finished = NFinished(members)
    /\ have_traded = {}
    /\ pairs = <<>>
    /\ pid = 0
    /\ rando_i = 0
    /\ did_not_trade = {}
    /\ printed = <<>>
    /\ last_trade = <<>>
    /\ round_start = <<>>
    /\ traders = {}
    /\ last_buy = <<>>

\* what the termination run leaves alone in every step
history == <<printed, last_trade, round_start, traders, last_buy>>

\* the loop test succeeds, whatever the number of rounds run
LiveEnterLoop ==
    /\ pc = "while"
    /\ LoopCond
    /\ pc' = "log"
    /\ UNCHANGED <<config, members, finishers, n_rounds, n_finished, have_traded,
                   pairs, pid, rando_i, did_not_trade, history>>

\* the progress report, printed or not (n_logging decides nothing else)
LiveLog ==
    /\ pc = "log"
    /\ pc' = "call"
    /\ UNCHANGED <<config, members, finishers, n_rounds, n_finished, have_traded,
                   pairs, pid, rando_i, did_not_trade, history>>

\* round_of_trade is entered
LiveRoundStart ==
    /\ pc = "call"
    /\ have_traded' = {}
    /\ pairs' = Combinations(0, 1, n_friends)
    /\ pc' = "friends"
    /\ UNCHANGED <<config, members, finishers, n_rounds, n_finished, pid, rando_i,
                   did_not_trade, history>>

\* one iteration of the pair loop that calls trade
LiveFriendTrade ==
    /\ pc = "friends"
    /\ pairs # <<>>
    /\ LET id1 == pairs[1][1]
           id2 == pairs[1][2]
           res == trade(members[id1], members[id2])
       IN  /\ ~SkipPair(members[id1], members[id2])
           /\ IF res.traded
              THEN /\ have_traded' = AddTraders(have_traded, {id1, id2})
                   /\ \E p1 \in AbsAfter(members[id1], finished(res.person1)) :
                      \E p2 \in AbsAfter(members[id2], finished(res.person2)) :
                         /\ members' = [members EXCEPT ![id1] = p1, ![id2] = p2]
                         /\ finishers' = update_member(
                                            update_member(finishers, id1, p1),
                                            id2, p2)
              ELSE UNCHANGED <<have_traded, members, finishers>>
    /\ pairs' = Tail(pairs)
    /\ UNCHANGED <<config, pc, n_rounds, n_finished, pid, rando_i, did_not_trade,
                   history>>

\* one iteration of the inner stranger loop: a fresh stranger, one call of trade
LiveRandoTrade ==
    /\ pc = "rando"
    /\ rando_i < n_randos
    /\ \E pack \in Packs(rando_endowment, n_stickers) :
          LET rando == Abs(Person(pack, n_stickers))
              res == trade(members[pid], rando)
          IN  IF res.traded
              THEN /\ have_traded' = AddTraders(have_traded, {pid})
                   /\ \E p1 \in AbsAfter(members[pid], finished(res.person1)) :
                         /\ members' = [members EXCEPT ![pid] = p1]
                         /\ finishers' = update_member(finishers, pid, p1)
              ELSE UNCHANGED <<have_traded, members, finishers>>
    /\ rando_i' = rando_i + 1
    /\ UNCHANGED <<config, pc, n_rounds, n_finished, pairs, pid, did_not_trade,
                   history>>

\* the stickers of a pack
InPack(pack) == {pack[i] : i \in DOMAIN pack}

\* one iteration of the last loop: person_id buys a pack that holds sticker s
LiveBuy(person_id, s) ==
    /\ pc = "buy"
    /\ person_id \in did_not_trade
    /\ \E pack \in Packs(stickers_per_pack, n_stickers) :
          /\ s \in InPack(pack)
          /\ LET person == Abs(finished(buy_pack(members[person_id], pack)))
             IN  /\ members' = [members EXCEPT ![person_id] = person]
                 /\ finishers' = update_member(finishers, person_id, person)
    /\ did_not_trade' = did_not_trade \ {person_id}
    /\ UNCHANGED <<config, pc, n_rounds, n_finished, have_traded, pairs, pid,
                   rando_i, history>>

\* one iteration of the last loop when packs are empty (stickers_per_pack = 0)
LiveBuyEmpty ==
    /\ pc = "buy"
    /\ stickers_per_pack = 0
    /\ \E person_id \in did_not_trade :
          LET person == Abs(finished(buy_pack(members[person_id], <<>>)))
          IN  /\ members' = [members EXCEPT ![person_id] = person]
              /\ finishers' = update_member(finishers, person_id, person)
              /\ did_not_trade' = did_not_trade \ {person_id}
    /\ UNCHANGED <<config, pc, n_rounds, n_finished, have_traded, pairs, pid,
                   rando_i, history>>

\* some friend buys a pack that is not empty
LiveBuySome ==
    \E person_id \in 0 .. (MaxFriends - 1) :
    \E s \in 0 .. (LiveMaxStickers - 1) : LiveBuy(person_id, s)

\* round_of_trade returns; n_finished is recomputed
LiveRoundEnd ==
    /\ pc = "buy"
    /\ did_not_trade = {}
    /\ n_finished' = NFinished(members)
    /\ n_rounds' = 1
    /\ pc' = "while"
    /\ UNCHANGED <<config, members, finishers, have_traded, pairs, pid, rando_i,
                   did_not_trade, history>>

\* the steps of the main run that touch no counter
LiveSame ==
    /\ \/ Return
       \/ FriendSkip
       \/ FriendsDone
       \/ RandoSkip
       \/ RandoEnter
       \/ RandoNext
       \/ RandosDone
    /\ UNCHANGED history

LiveNext ==
    \/ LiveEnterLoop
    \/ LiveLog
    \/ LiveRoundStart
    \/ LiveFriendTrade
    \/ LiveRandoTrade
    \/ LiveBuySome
    \/ LiveBuyEmpty
    \/ LiveRoundEnd
    \/ LiveSame

\* the program keeps running, and the draws are fair: a friend that buys
\* packs again and again draws every sticker again and again
LiveSpec ==
    /\ LiveInit
    /\ [][LiveNext]_vars
    /\ WF_vars(LiveNext)
    /\ \A person_id \in 0 .. (MaxFriends - 1) :
       \A s \in 0 .. (LiveMaxStickers - 1) : SF_vars(LiveBuy(person_id, s))

\* ---------------------------------------------------------------- claims

\* the stickers of which p holds a spare copy (duplicate count > 0)
Offerable(p) == {s \in Stickers(p.n_stickers) : Get(p.repeats, s) > 0}

\* what a can receive from b: b's spare stickers that a's album lacks
Receivable(a, b) == Offerable(b) \ a.album

\* the call of trade just made
T == last_trade[1]

\* the persons T was called on, as the economy holds them after the call
\* (a stranger is held nowhere: what the call returned)
AfterA == members[T.id1]
AfterB == IF T.id2 >= 0 THEN members[T.id2] ELSE T.b_after

\* C1: trade(a, b) returns True, and changes a and b, exactly when before
\* the call both a can receive something from b and b something from a.
C1_TradeIffBothReceivable ==
    last_trade # <<>> =>
        LET both == Receivable(T.a, T.b) # {} /\ Receivable(T.b, T.a) # {}
        IN  /\ T.traded <=> both
            /\ (T.a_after # T.a \/ T.b_after # T.b) <=> both
            /\ (AfterA # T.a \/ AfterB # T.b) <=> both

C1_Witness ==
    /\ last_trade # <<>>
    /\ T.traded
    /\ Receivable(T.a, T.b) # {}
    /\ Receivable(T.b, T.a) # {}
    /\ AfterA # T.a

\* C2: when trade(a, b) returns False, album, duplicate counts, is_finished
\* and money_spent of a and of b are what they were before the call.
C2_NoTradeNoChange ==
    (last_trade # <<>> /\ ~T.traded) =>
        /\ T.a_after = T.a
        /\ T.b_after = T.b
        /\ AfterA = T.a
        /\ AfterB = T.b

\* a wants something of b's, but b has everything a can offer
C2_Witness ==
    /\ last_trade # <<>>
    /\ ~T.traded
    /\ Offerable(T.a) # {}
    /\ Offerable(T.a) \subseteq T.b.album
    /\ Receivable(T.a, T.b) # {}
    /\ AfterA = T.a

\* C3: after a trade that returned True, every sticker a could receive is in
\* a's album and b's duplicate count of it is one lower, the same with a and
\* b exchanged, and no other duplicate count of a or b has changed.
C3_TradeConservation ==
    (last_trade # <<>> /\ T.traded) =>
        LET ar == Receivable(T.a, T.b)
            br == Receivable(T.b, T.a)
        IN  \A s \in Stickers(n_stickers) :
              /\ s \in ar => s \in AfterA.album
              /\ s \in br => s \in AfterB.album
              /\ Get(AfterB.repeats, s) =
                    Get(T.b.repeats, s) - (IF s \in ar THEN 1 ELSE 0)
              /\ Get(AfterA.repeats, s) =
                    Get(T.a.repeats, s) - (IF s \in br THEN 1 ELSE 0)

\* a trade in which a gives one of its two spare copies of a sticker
C3_Witness ==
    /\ last_trade # <<>>
    /\ T.traded
    /\ \E s \in Receivable(T.b, T.a) :
          /\ Get(T.a.repeats, s) = 2
          /\ Get(AfterA.repeats, s) = 1
          /\ s \in AfterB.album

\* C4 as stated: A holds 0 in its album and 1 as a duplicate, B holds 1 in its
\* album and 0 as a duplicate; then trade(A, B) returns True, both albums hold
\* 0 and 1 and neither keeps the sticker it gave as a duplicate.
C4_AsStated ==
    (/\ last_trade # <<>>
     /\ 0 \in T.a.album /\ Get(T.a.repeats, 1) > 0
     /\ 1 \in T.b.album /\ Get(T.b.repeats, 0) > 0) =>
        /\ T.traded
        /\ {0, 1} \subseteq AfterA.album
        /\ {0, 1} \subseteq AfterB.album
        /\ Get(AfterA.repeats, 1) = 0
        /\ Get(AfterB.repeats, 0) = 0

\* the two-friend scenario in which each holds the spare the other lacks
C4_Scenario(a, b) ==
    /\ 0 \in a.album /\ Get(a.repeats, 0) = 1 /\ 1 \notin a.album
    /\ 1 \in b.album /\ Get(b.repeats, 1) = 1 /\ 0 \notin b.album

\* C4 amended: A holds 0 in its album and exactly one duplicate of 0 and lacks
\* 1, B holds 1 in its album and exactly one duplicate of 1 and lacks 0; then
\* trade(A, B) returns True, both albums hold 0 and 1 and neither keeps the
\* sticker it gave as a duplicate.
C4_TwoFriendTrade ==
    (last_trade # <<>> /\ C4_Scenario(T.a, T.b)) =>
        /\ T.traded
        /\ {0, 1} \subseteq AfterA.album
        /\ {0, 1} \subseteq AfterB.album
        /\ Get(AfterA.repeats, 0) = 0
        /\ Get(AfterB.repeats, 1) = 0

C4_Witness ==
    /\ last_trade # <<>>
    /\ T.phase = "friends"
    /\ C4_Scenario(T.a, T.b)
    /\ T.traded
    /\ {0, 1} \subseteq AfterA.album

\* the friends
Friends == DOMAIN members

\* C5: when round_of_trade has returned, every friend that was party to no
\* trade that returned True in that round has spent exactly 1 more than when
\* the round was entered.
C5_NonTradersBuyOnePack ==
    (pc = "while" /\ n_rounds > 0) =>
        \A f \in Friends \ traders :
            members[f].money_spent = round_start[f].money_spent + 1

\* a round after which one friend had traded and the other had not
C5_Witness ==
    /\ pc = "while"
    /\ n_rounds > 0
    /\ traders # {}
    /\ \E f \in Friends \ traders :
          members[f].money_spent = round_start[f].money_spent + 1

\* C6 as stated: once a friend's is_finished is true its money_spent never
\* changes again.
C6_FinishedNeverBuys ==
    [][\A f \in Friends :
          members[f].is_finished =>
              members'[f].money_spent = members[f].money_spent]_vars

\* C7: a call of trade on a finished friend returns False and leaves the
\* friend's album and duplicate counts as they were.
C7_FinishedNeverTrades ==
    last_trade # <<>> =>
        /\ T.a.is_finished =>
              /\ ~T.traded
              /\ AfterA.album = T.a.album
              /\ AfterA.repeats = T.a.repeats
        /\ (T.id2 >= 0 /\ T.b.is_finished) =>
              /\ ~T.traded
              /\ AfterB.album = T.b.album
              /\ AfterB.repeats = T.b.repeats

\* a friend that finished earlier in this stranger loop meets a stranger that
\* lacks one of the friend's spare stickers
C7_Witness ==
    /\ last_trade # <<>>
    /\ T.phase = "randos"
    /\ T.a.is_finished
    /\ ~round_start[T.id1].is_finished
    /\ Receivable(T.b, T.a) # {}
    /\ ~T.traded

\* C8: the loop of run_simulation enters its body only when some friend is
\* not finished, round_of_trade is entered only then, and run_simulation
\* returns only when every friend is finished.
C8_StopsExactlyWhenAllFinished ==
    [][/\ (pc = "while" /\ pc' = "log") =>
              \E f \in Friends : ~members[f].is_finished
       /\ (pc = "call" /\ pc' = "friends") =>
              \E f \in Friends : ~members[f].is_finished
       /\ (pc = "while" /\ pc' = "done") =>
              \A f \in Friends : members[f].is_finished]_vars

\* run_simulation has returned after at least one round
C8_Witness ==
    /\ pc = "done"
    /\ n_rounds > 0
    /\ \A f \in Friends : members[f].is_finished
    /\ \E f \in Friends : ~round_start[f].is_finished

\* what C9 concludes: every friend finished by its constructor, and
\* run_simulation at its loop test or returned with no round, no report and
\* no trade made
C9_FinishedAtRoundZero ==
    /\ \A f \in Friends : members[f].is_finished /\ members[f].money_spent = 1
    /\ n_finished = n_friends
    /\ n_rounds = 0
    /\ pc \in {"while", "done"}
    /\ printed = <<>>
    /\ last_trade = <<>>

\* C9 as stated: album size 1, positive pack size, one or more friends.
C9_AsStated ==
    (n_stickers = 1 /\ stickers_per_pack >= 1 /\ n_friends >= 1) =>
        C9_FinishedAtRoundZero

\* C9 amended: album size 1, positive starting endowment (the size of the
\* pack the constructor buys), one or more friends, any pack size.
C9_TerminatesAtRoundZero ==
    (n_stickers = 1 /\ starting_endowment >= 1 /\ n_friends >= 1) =>
        C9_FinishedAtRoundZero

C9_Witness ==
    /\ n_stickers = 1
    /\ starting_endowment >= 1
    /\ n_friends > 1
    /\ pc = "done"
    /\ n_rounds = 0
    /\ n_finished = n_friends

\* C10 as stated: the finisher count of a progress report is the number of
\* friends whose is_finished is true when it is printed.
C10_ReportCountsFinished ==
    (pc = "call" /\ printed # <<>> /\ printed[1].round = n_rounds) =>
        printed[1].n_finishers = NFinished(members)

\* every collector of the state: the friends and, during a call of trade, the
\* two persons of the call before and after it (a stranger is one of them)
Collectors ==
    {members[f] : f \in Friends} \cup
    (IF last_trade = <<>> THEN {} ELSE {T.a, T.b, T.a_after, T.b_after})

\* C11: no collector, friend or stranger, has a negative duplicate count, and
\* every sticker a trade takes from a collector had a count above 0.
C11_NoNegativeDuplicates ==
    /\ \A p \in Collectors : \A k \in DOMAIN p.repeats : p.repeats[k] >= 0
    /\ last_trade # <<>> =>
          \A s \in Stickers(n_stickers) :
              /\ Get(T.a_after.repeats, s) < Get(T.a.repeats, s) =>
                    Get(T.a.repeats, s) > 0
              /\ Get(T.b_after.repeats, s) < Get(T.b.repeats, s) =>
                    Get(T.b.repeats, s) > 0

\* trade is called on a friend that has given its last spare copy of a
\* sticker the other person lacks
C11_Witness ==
    /\ last_trade # <<>>
    /\ \E s \in DOMAIN T.a.repeats : T.a.repeats[s] = 0 /\ s \notin T.b.album
    /\ T.a_after.repeats = T.a.repeats

\* C12: for every collector, is_finished is true exactly when the album
\* holds n_stickers identifiers.
C12_FinishedIffAlbumFull ==
    \A p \in Collectors :
        p.is_finished <=> (Cardinality(p.album) = p.n_stickers)

\* a trade completes the album of a friend
C12_Witness ==
    /\ last_trade # <<>>
    /\ T.traded
    /\ ~T.a.is_finished
    /\ T.a_after.is_finished
    /\ Cardinality(T.a_after.album) = n_stickers

\* C13: no step takes a sticker out of an album: a friend's album after any
\* step, and each person's album after a call of trade, is a superset of
\* what it was.
C13_AlbumNeverShrinks ==
    [][/\ \A f \in Friends : members[f].album \subseteq members'[f].album
       /\ last_trade' # <<>> =>
             /\ last_trade'[1].a.album \subseteq last_trade'[1].a_after.album
             /\ last_trade'[1].b.album \subseteq last_trade'[1].b_after.album]_vars

\* a round in which one friend's album grew by a trade and the other's by a
\* bought pack
C13_Witness ==
    /\ pc = "while"
    /\ n_rounds > 0
    /\ \E f \in traders : round_start[f].album # members[f].album
    /\ \E f \in Friends \ traders : round_start[f].album # members[f].album

\* C14: is_finished never goes back to false: not for a friend in any step,
\* nor for a person in a call of trade.
C14_FinishedStaysFinished ==
    [][/\ \A f \in Friends :
             members[f].is_finished => members'[f].is_finished
       /\ last_trade' # <<>> =>
             /\ last_trade'[1].a.is_finished => last_trade'[1].a_after.is_finished
             /\ last_trade'[1].b.is_finished => last_trade'[1].b_after.is_finished]_vars

\* a finished friend has bought one more pack and is still finished
C14_Witness ==
    /\ last_buy # <<>>
    /\ last_buy[1].before.is_finished
    /\ Len(last_buy[1].pack) > 0
    /\ members[last_buy[1].id].is_finished
    /\ members[last_buy[1].id].repeats # last_buy[1].before.repeats

\* the copies of sticker s that p holds: one in the album and the duplicates
Copies(p, s) == (IF s \in p.album THEN 1 ELSE 0) + Get(p.repeats, s)

\* album size plus the sum of all duplicate counts
RECURSIVE SumCopies(_, _)
SumCopies(p, ids) ==
    IF ids = {} THEN 0
    ELSE LET s == CHOOSE x \in ids : TRUE
         IN  Copies(p, s) + SumCopies(p, ids \ {s})

TotalCopies(p) == SumCopies(p, Stickers(p.n_stickers))

\* how many times the pack holds sticker s
CountIn(pack, s) == Cardinality({i \in DOMAIN pack : pack[i] = s})

\* C15: buy_pack(k) raises money_spent by 1 and the total copy count by k,
\* each drawn sticker going to the album if the album lacks it at that point
\* and to the duplicates otherwise; with k = 0 album and duplicates stay.
\* Checked on the pack a friend buys in a round (k = stickers_per_pack) and on
\* the pack a constructor buys (k = the endowment).
C15_BuyPackAddsPack ==
    /\ last_buy # <<>> =>
          LET b == last_buy[1].before
              q == members[last_buy[1].id]
              pack == last_buy[1].pack
          IN  /\ Len(pack) = stickers_per_pack
              /\ q.money_spent = b.money_spent + 1
              /\ TotalCopies(q) = TotalCopies(b) + stickers_per_pack
              /\ \A s \in Stickers(n_stickers) :
                    /\ Copies(q, s) = Copies(b, s) + CountIn(pack, s)
                    /\ s \in q.album <=> (s \in b.album \/ CountIn(pack, s) > 0)
              /\ stickers_per_pack = 0 =>
                    (q.album = b.album /\ q.repeats = b.repeats)
    /\ (pc = "while" /\ n_rounds = 0) =>
          \A f \in Friends :
              /\ members[f].money_spent = 1
              /\ TotalCopies(members[f]) = starting_endowment
    /\ (last_trade # <<>> /\ T.phase = "randos") =>
          /\ T.b.money_spent = 1
          /\ TotalCopies(T.b) = rando_endowment

\* a friend buys a pack whose sticker it already has
C15_Witness ==
    /\ last_buy # <<>>
    /\ Len(last_buy[1].pack) = 1
    /\ last_buy[1].pack[1] \in last_buy[1].before.album
    /\ Get(members[last_buy[1].id].repeats, last_buy[1].pack[1]) =
          Get(last_buy[1].before.repeats, last_buy[1].pack[1]) + 1

\* C16: during the two trading loops no friend's money_spent changes
\* (strangers pay for their own packs), and when round_of_trade has returned
\* a friend that traded has spent what it had spent at the start of the
\* round and a friend that did not has spent 1 more.
C16_OnlyNonTradersBuy ==
    /\ pc \in {"friends", "randos", "rando"} =>
          \A f \in Friends :
              members[f].money_spent = round_start[f].money_spent
    /\ (pc = "while" /\ n_rounds > 0) =>
          \A f \in Friends :
              members[f].money_spent =
                 round_start[f].money_spent + (IF f \in traders THEN 0 ELSE 1)

\* a round in which both friends traded with each other and nobody bought
C16_Witness ==
    /\ pc = "while"
    /\ n_rounds > 0
    /\ Cardinality(traders) = 2
    /\ \A f \in Friends : members[f].money_spent = round_start[f].money_spent

\* C17: every sticker of which a collector holds a duplicate is in its
\* album; so in a call of trade nobody can receive what it can offer, and
\* what a can receive is disjoint from what b can receive.
C17_DuplicatesAreInAlbum ==
    /\ \A p \in Collectors :
          /\ Offerable(p) \subseteq p.album
          /\ {k \in DOMAIN p.repeats : p.repeats[k] > 0} \subseteq p.album
    /\ last_trade # <<>> =>
          /\ Receivable(T.a, T.b) \cap Offerable(T.a) = {}
          /\ Receivable(T.b, T.a) \cap Offerable(T.b) = {}
          /\ Receivable(T.a, T.b) \cap Receivable(T.b, T.a) = {}

\* a trade after which the friend still holds a spare copy
C17_Witness ==
    /\ last_trade # <<>>
    /\ T.traded
    /\ Receivable(T.a, T.b) # {}
    /\ Receivable(T.b, T.a) # {}
    /\ Offerable(T.a_after) # {}

\* C19: when round_of_trade has returned, every friend that was unfinished
\* at its start has traded and has a strictly larger album, or has bought
\* exactly one pack.
C19_RoundProgress ==
    (pc = "while" /\ n_rounds > 0) =>
        \A f \in Friends :
            ~round_start[f].is_finished =>
                \/ /\ f \in traders
                   /\ round_start[f].album \subseteq members[f].album
                   /\ round_start[f].album # members[f].album
                \/ members[f].money_spent = round_start[f].money_spent + 1

\* a round in which one unfinished friend traded and another bought
C19_Witness ==
    /\ pc = "while"
    /\ n_rounds > 0
    /\ \E f \in traders : ~round_start[f].is_finished
    /\ \E f \in Friends \ traders :
          /\ ~round_start[f].is_finished
          /\ members[f].money_spent = round_start[f].money_spent + 1

\* C20: finishers holds only Person objects of members whose is_finished is
\* true, and no more than n_friends of them.
C20_FinishersAreFinishedFriends ==
    /\ finishers \subseteq Friends
    /\ \A f \in finishers : members[f].is_finished
    /\ Cardinality(finishers) <= n_friends

\* a friend has finished by trading with a stranger and is in finishers
C20_Witness ==
    /\ last_trade # <<>>
    /\ T.phase = "randos"
    /\ T.traded
    /\ T.id1 \in finishers
    /\ finishers # Friends

\* C18: with stickers_per_pack >= 1 and fair draws, run_simulation returns,
\* and with every friend finished.
C18_RunTerminates ==
    (stickers_per_pack >= 1) ~>
        (pc = "done" /\ \A f \in Friends : members[f].is_finished)

\* run_simulation has returned after running rounds
C18_Witness ==
    /\ pc = "done"
    /\ n_rounds = 1
    /\ stickers_per_pack >= 1
    /\ n_friends = MaxFriends
    /\ \A f \in Friends : members[f].is_finished

====
